---- MODULE Spec2Model ----
(***************************************************************************)
(* The uncertainty worksheet of src/app.py: a Streamlit script that is     *)
(* re-executed top to bottom whenever a widget value changes.  The state   *)
(* that outlives a run is the widget state of the session (the sidebar and *)
(* electrical inputs and the cells of the readings editor); everything     *)
(* else is recomputed by the run.                                          *)
(*                                                                         *)
(* Numbers.  The script works on Python floats.  They are modelled as      *)
(* fixed-point integers with round-to-nearest on every division and root:  *)
(*   - the quantities of the uncertainty path count 1/Unit;                *)
(*   - their squares (x**2) and sums of squares count 1/Unit^2 and are     *)
(*     exact, so that a small component is not lost before the root;       *)
(*   - the quantities of the power path count 1/Milli;                     *)
(*   - NaN is the float a cleared cell of the readings editor yields; it   *)
(*     propagates through arithmetic and every comparison with it is FALSE.*)
(***************************************************************************)
EXTENDS Integers, Sequences, FiniteSets, TLC

Unit == 400000

Milli == 1000

NaN == -2000000000

IsNaN(x) == x = NaN

Abs(x) == IF x < 0 THEN -x ELSE x

\* a / b for b > 0, rounded to nearest, ties to even, symmetric in the sign of a
RoundDiv(a, b) ==
    LET n == Abs(a)
        q == n \div b
        r == n % b
        up == IF 2 * r > b \/ (2 * r = b /\ q % 2 = 1) THEN q + 1 ELSE q
    IN  IF a < 0 THEN -up ELSE up

\* float comparisons: FALSE as soon as one side is NaN
Lt(a, b) == ~IsNaN(a) /\ ~IsNaN(b) /\ a < b

Gt(a, b) == ~IsNaN(a) /\ ~IsNaN(b) /\ a > b

Ge(a, b) == ~IsNaN(a) /\ ~IsNaN(b) /\ a >= b

\* float arithmetic: NaN in, NaN out
Add(a, b) == IF IsNaN(a) \/ IsNaN(b) THEN NaN ELSE a + b

Sub(a, b) == IF IsNaN(a) \/ IsNaN(b) THEN NaN ELSE a - b

\* x ** 2, kept at the resolution 1/Unit^2
Sq(x) == IF IsNaN(x) THEN NaN ELSE x * x

\* a / n for a whole number n (10, 9, 2, 1000)
DivInt(a, n) == IF IsNaN(a) THEN NaN ELSE RoundDiv(a, n)

\* a * n for a whole number n
MulInt(a, n) == IF IsNaN(a) THEN NaN ELSE a * n

\* the product of two quantities counted in 1/one, counted in 1/one
MulFix(a, b, one) == IF IsNaN(a) \/ IsNaN(b) THEN NaN ELSE RoundDiv(a * b, one)

RECURSIVE SqrtBetween(_, _, _)
\* the largest r in lo..hi with r * r <= x, by bisection
SqrtBetween(x, lo, hi) ==
    IF lo >= hi THEN lo
    ELSE LET mid == (lo + hi + 1) \div 2
         IN  IF mid * mid <= x THEN SqrtBetween(x, mid, hi)
                               ELSE SqrtBetween(x, lo, mid - 1)

\* math.sqrt(x) for x >= 0: the integer nearest to the root of x
\* (46340 is the largest root of a 32-bit integer)
SqrtInt(x) ==
    LET r == SqrtBetween(x, 0, 46340)
    IN  IF r < 46340 /\ x - r * r > r THEN r + 1 ELSE r

\* math.sqrt of a sum of squares: from 1/Unit^2 back to 1/Unit
Sqrt(x) == IF IsNaN(x) THEN NaN ELSE SqrtInt(x)

\* math.sqrt(3), counted in 1/Milli
Sqrt3 == SqrtInt(3 * Milli * Milli)

\* x / d for a divisor d counted in 1/Milli (math.sqrt(3), 2 * math.sqrt(3))
DivFix(x, d) == IF IsNaN(x) THEN NaN ELSE RoundDiv(x * Milli, d)

\* the power of two that brings b below 2^17, the width kept of a quotient
Prescale(b) ==
    IF b < 131072 THEN 1
    ELSE IF b < 524288 THEN 4
    ELSE IF b < 2097152 THEN 16
    ELSE IF b < 8388608 THEN 64
    ELSE IF b < 33554432 THEN 256
    ELSE IF b < 134217728 THEN 1024
    ELSE IF b < 536870912 THEN 4096
    ELSE 16384

\* a / b without the "* 100": a fraction of one, counted in hundredths
Fraction(a, b) ==
    LET d == Prescale(b)
    IN  RoundDiv(RoundDiv(a, d) * 100, RoundDiv(b, d))

\* (a / b) * 100 for 0 <= a <= b, b > 0, counted in hundredths (the "%.2f" shown)
Percent(a, b) ==
    LET d == Prescale(b)
    IN  RoundDiv(RoundDiv(a, d) * 10000, RoundDiv(b, d))

\* Python's max(a, b): b only when b > a, otherwise a (so max(nan, b) is nan)
PyMax(a, b) == IF Gt(b, a) THEN b ELSE a

\* math.copysign(x, y); the model has no negative zero
CopySign(x, y) == IF y < 0 THEN -Abs(x) ELSE Abs(x)

RECURSIVE SumSeq(_)
\* the float sum of a sequence
SumSeq(s) == IF s = <<>> THEN 0 ELSE Add(Head(s), SumSeq(Tail(s)))

---------------------------------------------------------------------------
(* Constants, src/app.py:12-14 *)

TEMPERATURE_COEFFICIENT == (25 * Unit) \div 1000000

COVERAGE_FACTOR == 2

BMC_FLOOR == (83 * Unit) \div 1000

\* the readings table has ten rows, "Reading 1" .. "Reading 10"
NumReadings == 10

\* the labels and formula strings are written in ASCII, the way clean_text
\* (src/app.py:590-603) writes them to the PDF
SinglePhase == "Single-phase (1phi)"

ThreePhase == "Three-phase (3phi)"

---------------------------------------------------------------------------
(* The power and energy calculation, src/app.py:158-184 *)

\* the single-phase product, whatever the phase mode
RealPowerWithoutSqrt3(ac_type, voltage, current, power_factor) ==
    MulFix(MulFix(voltage, current, Milli), power_factor, Milli)

RealPowerW(ac_type, voltage, current, power_factor) ==
    IF ac_type = SinglePhase
    THEN MulFix(MulFix(voltage, current, Milli), power_factor, Milli)
    ELSE MulFix(MulFix(MulFix(Sqrt3, voltage, Milli), current, Milli),
                power_factor, Milli)

PowerFormula(ac_type) ==
    IF ac_type = SinglePhase THEN "P(W) = V x I x PF"
                             ELSE "P(W) = sqrt3 x V_LL x I x PF"

\* 1 - power_factor**2, the argument of math.sqrt on line 170
Radicand(power_factor) == Milli - MulFix(power_factor, power_factor, Milli)

\* math.sqrt raises ValueError ("math domain error") on a negative argument
SinPhiRaises(power_factor) == Radicand(power_factor) < 0

\* the root alone, without the sign of the power factor
SinPhiUnsigned(power_factor) == SqrtInt(Radicand(power_factor) * Milli)

SinPhi(power_factor) ==
    CopySign(SqrtInt(Radicand(power_factor) * Milli), power_factor)

ReactivePowerVar(ac_type, voltage, current, sin_phi) ==
    IF ac_type = SinglePhase
    THEN MulFix(MulFix(voltage, current, Milli), sin_phi, Milli)
    ELSE MulFix(MulFix(MulFix(Sqrt3, voltage, Milli), current, Milli),
                sin_phi, Milli)

ReactiveFormula(ac_type) ==
    IF ac_type = SinglePhase THEN "Q(VAr) = V x I x sin(phi)"
                             ELSE "Q(VAr) = sqrt3 x V_LL x I x sin(phi)"

\* w / 1000.0
ToKilo(w) == DivInt(w, 1000)

\* kilowatts times hours
Energy(kw, time_hours) == MulFix(kw, time_hours, Milli)

---------------------------------------------------------------------------
(* The uncertainty components, src/app.py:222-255 *)

\* np.mean(error_array)
Mean(xs) == IF Len(xs) = 0 THEN NaN ELSE DivInt(SumSeq(xs), Len(xs))

\* the population standard deviation (ddof=0): the divisor is n
StdPopulation(xs) ==
    IF Len(xs) = 0 THEN NaN
    ELSE LET m == Mean(xs)
             dev2 == [i \in 1..Len(xs) |-> Sq(Sub(xs[i], m))]
         IN  Sqrt(DivInt(SumSeq(dev2), Len(xs)))

\* np.std(error_array, ddof=1): the root of the sum of squared deviations
\* from the mean over n - 1; nan (with a warning, no exception) when n < 2
Std(xs) ==
    IF Len(xs) - 1 <= 0 THEN NaN
    ELSE LET m == Mean(xs)
             dev2 == [i \in 1..Len(xs) |-> Sq(Sub(xs[i], m))]
         IN  Sqrt(DivInt(SumSeq(dev2), Len(xs) - 1))

CalcU1(error_readings) == Std(error_readings)

\* the reference component taken from the magnitude of the accuracy
CalcU2Magnitude(ref_standard_accuracy) == DivFix(Abs(ref_standard_accuracy), Sqrt3)

CalcU2(ref_standard_accuracy) == DivFix(ref_standard_accuracy, Sqrt3)

CalcU3(certificate_uncertainty) == DivInt(certificate_uncertainty, 2)

CalcU4(duc_resolution) == DivFix(duc_resolution, 2 * Sqrt3)

CalcU5(temp_difference) ==
    DivFix(MulFix(TEMPERATURE_COEFFICIENT, temp_difference, Unit), Sqrt3)

TotalDrift(age_factor, years_in_service) ==
    MulFix(age_factor, years_in_service, Unit)

CalcU6(total_drift) == DivFix(total_drift, Sqrt3)

AverageError(error_readings) == Mean(error_readings)

\* a sum of squares that leaves the last component out
SumOfSquaresWithoutU6(u1, u2, u3, u4, u5, u6) ==
    Add(Add(Add(Add(Sq(u1), Sq(u2)), Sq(u3)), Sq(u4)), Sq(u5))

\* U1**2 + U2**2 + U3**2 + U4**2 + U5**2 + U6**2, left to right
SumOfSquares(u1, u2, u3, u4, u5, u6) ==
    Add(Add(Add(Add(Add(Sq(u1), Sq(u2)), Sq(u3)), Sq(u4)), Sq(u5)), Sq(u6))

\* the components added linearly instead of in quadrature
LinearSum(u1, u2, u3, u4, u5, u6) ==
    Add(Add(Add(Add(Add(u1, u2), u3), u4), u5), u6)

CombinedUncertainty(u1, u2, u3, u4, u5, u6) ==
    Sqrt(SumOfSquares(u1, u2, u3, u4, u5, u6))

ExpandedUncertainty(uc) == MulInt(uc, COVERAGE_FACTOR)

FinalExpandedUncertainty(expanded_uncertainty) ==
    PyMax(expanded_uncertainty, BMC_FLOOR)

\* a floor flag that is also raised at the floor itself
BmcAppliedAtFloor(expanded_uncertainty) ==
    ~IsNaN(expanded_uncertainty) /\ expanded_uncertainty <= BMC_FLOOR

BmcApplied(expanded_uncertainty) == Lt(expanded_uncertainty, BMC_FLOOR)

\* one line of "Component Contributions" (src/app.py:395-400): the variance,
\* and the percentage only when the total variance is above zero
ContributionLine(variance, total_variance) ==
    IF Gt(total_variance, 0)
    THEN [variance |-> variance, percentage |-> Percent(variance, total_variance)]
    ELSE [variance |-> variance]

Contributions(u1, u2, u3, u4, u5, u6) ==
    LET contributions == <<Sq(u1), Sq(u2), Sq(u3), Sq(u4), Sq(u5), Sq(u6)>>
        total_variance == SumSeq(contributions)
    IN  [i \in 1..6 |-> ContributionLine(contributions[i], total_variance)]

---------------------------------------------------------------------------
(* The reports, src/app.py:403-753: what they write of the readings and of  *)
(* the result                                                               *)

\* rows numbered as enumerate(error_readings) numbers them, from 0
ExcelReadingsFromZero(error_readings) ==
    [i \in 1..Len(error_readings) |-> [label |-> i - 1, value |-> error_readings[i]]]

\* rows "Reading i" of the workbook: enumerate(error_readings, 1)
ExcelReadings(error_readings) ==
    [i \in 1..Len(error_readings) |-> [label |-> i, value |-> error_readings[i]]]

\* "R{j+1}: ..." of the PDF, two lines of five
PdfReadings(error_readings) ==
    [j \in 1..10 |-> [label |-> j, value |-> error_readings[j]]]

create_excel_report(error_readings, b) ==
    [readings |-> ExcelReadings(error_readings),
     average_error |-> b.average_error,
     uc |-> b.uc,
     final_expanded_uncertainty |-> b.final_expanded_uncertainty,
     bmc_note |-> b.bmc_applied]

create_pdf_report(error_readings, b) ==
    [readings |-> PdfReadings(error_readings),
     average_error |-> b.average_error,
     uc |-> b.uc,
     expanded_uncertainty |-> b.expanded_uncertainty,
     final_expanded_uncertainty |-> b.final_expanded_uncertainty,
     bmc_note |-> b.bmc_applied]

---------------------------------------------------------------------------
(* One run of the script, top to bottom *)

\* lines 158-184
PowerAndEnergy(in) ==
    LET real_power_w == RealPowerW(in.ac_type, in.voltage, in.current, in.power_factor)
        real_power_kw == ToKilo(real_power_w)
        sin_phi == SinPhi(in.power_factor)
        reactive_power_var == ReactivePowerVar(in.ac_type, in.voltage, in.current, sin_phi)
        reactive_power_kvar == ToKilo(reactive_power_var)
    IN  [real_power_w |-> real_power_w,
         power_formula |-> PowerFormula(in.ac_type),
         real_power_kw |-> real_power_kw,
         sin_phi |-> sin_phi,
         reactive_power_var |-> reactive_power_var,
         reactive_formula |-> ReactiveFormula(in.ac_type),
         reactive_power_kvar |-> reactive_power_kvar,
         real_energy_kwh |-> Energy(real_power_kw, in.time_hours),
         reactive_energy_kvarh |-> Energy(reactive_power_kvar, in.time_hours)]

\* a budget whose drift multiplies the age factor by the hours of the
\* measurement instead of the years in service
UncertaintyBudgetOverHours(in) ==
    LET U1 == CalcU1(in.error_readings)
        U2 == CalcU2(in.ref_standard_accuracy)
        U3 == CalcU3(in.certificate_uncertainty)
        U4 == CalcU4(in.duc_resolution)
        U5 == CalcU5(in.temp_difference)
        total_drift == MulFix(in.age_factor, in.time_hours, Milli)
        U6 == CalcU6(total_drift)
        uc == CombinedUncertainty(U1, U2, U3, U4, U5, U6)
        expanded_uncertainty == ExpandedUncertainty(uc)
    IN  [U1 |-> U1, U2 |-> U2, U3 |-> U3, U4 |-> U4, U5 |-> U5,
         total_drift |-> total_drift, U6 |-> U6,
         average_error |-> AverageError(in.error_readings),
         uc |-> uc,
         expanded_uncertainty |-> expanded_uncertainty,
         final_expanded_uncertainty |-> FinalExpandedUncertainty(expanded_uncertainty),
         bmc_applied |-> BmcApplied(expanded_uncertainty),
         contributions |-> Contributions(U1, U2, U3, U4, U5, U6)]

\* lines 222-255 and 383-400
UncertaintyBudget(in) ==
    LET U1 == CalcU1(in.error_readings)
        U2 == CalcU2(in.ref_standard_accuracy)
        U3 == CalcU3(in.certificate_uncertainty)
        U4 == CalcU4(in.duc_resolution)
        U5 == CalcU5(in.temp_difference)
        total_drift == TotalDrift(in.age_factor, in.years_in_service)
        U6 == CalcU6(total_drift)
        uc == CombinedUncertainty(U1, U2, U3, U4, U5, U6)
        expanded_uncertainty == ExpandedUncertainty(uc)
    IN  [U1 |-> U1, U2 |-> U2, U3 |-> U3, U4 |-> U4, U5 |-> U5,
         total_drift |-> total_drift, U6 |-> U6,
         average_error |-> AverageError(in.error_readings),
         uc |-> uc,
         expanded_uncertainty |-> expanded_uncertainty,
         final_expanded_uncertainty |-> FinalExpandedUncertainty(expanded_uncertainty),
         bmc_applied |-> BmcApplied(expanded_uncertainty),
         contributions |-> Contributions(U1, U2, U3, U4, U5, U6)]

\* What a run leaves on the page.  math.sqrt on line 170 is the one statement
\* that can raise: the run then stops there, before anything of the results
\* is shown and before the reports are built.
Script(in) ==
    IF SinPhiRaises(in.power_factor)
    THEN [error |-> "ValueError"]
    ELSE LET b == UncertaintyBudget(in)
         IN  [error |-> "none",
              power |-> PowerAndEnergy(in),
              budget |-> b,
              excel_file |-> create_excel_report(in.error_readings, b),
              pdf_file |-> create_pdf_report(in.error_readings, b)]

---------------------------------------------------------------------------
(* State *)

VARIABLES
    ref_standard_accuracy,      \* sidebar number inputs, lines 26-70
    certificate_uncertainty,
    duc_resolution,
    temp_difference,
    age_factor,
    years_in_service,
    error_readings,             \* the "Error Value" column of the editor, line 105
    ac_type,                    \* electrical inputs, lines 116-156
    voltage,
    current,
    power_factor,
    time_hours,
    power_factor_entry,         \* the number last typed into "Power Factor"
    out                         \* what the last run of the script produced

inputs == <<ref_standard_accuracy, certificate_uncertainty, duc_resolution,
            temp_difference, age_factor, years_in_service, error_readings,
            ac_type, voltage, current, power_factor, time_hours>>

vars == <<inputs, power_factor_entry, out>>

\* the values the run reads from the widgets
InputSet ==
    [ref_standard_accuracy |-> ref_standard_accuracy,
     certificate_uncertainty |-> certificate_uncertainty,
     duc_resolution |-> duc_resolution,
     temp_difference |-> temp_difference,
     age_factor |-> age_factor,
     years_in_service |-> years_in_service,
     error_readings |-> error_readings,
     ac_type |-> ac_type,
     voltage |-> voltage,
     current |-> current,
     power_factor |-> power_factor,
     time_hours |-> time_hours]

\* the widgets' value= arguments and the initial readings_df (lines 26-156)
Defaults ==
    [ref_standard_accuracy |-> (5 * Unit) \div 100,
     certificate_uncertainty |-> (3 * Unit) \div 100,
     duc_resolution |-> Unit \div 1000,
     temp_difference |-> 0,
     age_factor |-> Unit \div 100000,
     years_in_service |-> 10 * Unit,
     error_readings |-> [i \in 1..NumReadings |-> 0],
     ac_type |-> SinglePhase,
     voltage |-> 230 * Milli,
     current |-> 5 * Milli,
     power_factor |-> 850,
     time_hours |-> 1 * Milli]

---------------------------------------------------------------------------
(* The values the operator enters.  The sidebar inputs and the editor cells *)
(* take any number (no min_value / max_value); a cleared cell is NaN.      *)

RefValues == {0, (5 * Unit) \div 100, (7 * Unit) \div 100, -((5 * Unit) \div 100)}

CertValues == {0, (3 * Unit) \div 100, (83 * Unit) \div 1000}

ResValues == {0, Unit \div 1000}

TempValues == {0, 40 * Unit}

AgeValues == {0, Unit \div 100000}

YearsValues == {10 * Unit, 20 * Unit}

ReadingValues == {0, (2 * Unit) \div 100, NaN}

AcTypes == {SinglePhase, ThreePhase}

\* numbers typed into the bounded inputs, in range and out of range
VoltageValues == {230 * Milli, 100 * Milli, -1 * Milli}

CurrentValues == {5 * Milli, 2 * Milli, -1 * Milli}

PowerFactorValues == {850, 0, -600, Milli, 1500}

TimeValues == {1 * Milli, 2 * Milli, -1 * Milli}

\* an input without bounds: whatever is typed becomes the value
CommitAny(lo, hi, old, v) == {v}

\* number_input(min_value=lo, max_value=hi): a typed number inside [lo, hi]
\* becomes the widget's value; one outside never does (the widget keeps its
\* value or takes the bound, whichever the front end does)
CommitRange(lo, hi, old, v) ==
    IF lo <= v /\ v <= hi THEN {v} ELSE {old, IF v < lo THEN lo ELSE hi}

\* number_input(min_value=lo), no max_value
CommitMin(lo, old, v) == IF lo <= v THEN {v} ELSE {old, lo}

\* how many inputs differ from the form's defaults
Changed(in) ==
    Cardinality({f \in DOMAIN in \ {"error_readings"} : in[f] # Defaults[f]})
    + Cardinality({i \in 1..NumReadings : in.error_readings[i] # Defaults.error_readings[i]})

\* the session is explored while at most MaxChanged inputs are off their defaults
MaxChanged == 2

Init ==
    /\ ref_standard_accuracy = Defaults.ref_standard_accuracy
    /\ certificate_uncertainty = Defaults.certificate_uncertainty
    /\ duc_resolution = Defaults.duc_resolution
    /\ temp_difference = Defaults.temp_difference
    /\ age_factor = Defaults.age_factor
    /\ years_in_service = Defaults.years_in_service
    /\ error_readings = Defaults.error_readings
    /\ ac_type = Defaults.ac_type
    /\ voltage = Defaults.voltage
    /\ current = Defaults.current
    /\ power_factor = Defaults.power_factor
    /\ time_hours = Defaults.time_hours
    /\ power_factor_entry = Defaults.power_factor
    /\ out = Script(InputSet)

\* a rerun that keeps the budget of the previous run while the readings
\* table is unchanged
RerunCached ==
    /\ Changed(InputSet') <= MaxChanged
    /\ out' = IF error_readings' = error_readings /\ out.error = "none"
              THEN [Script(InputSet') EXCEPT !.budget = out.budget]
              ELSE Script(InputSet')

\* every widget change re-executes the script with the new widget state
Rerun ==
    /\ Changed(InputSet') <= MaxChanged
    /\ out' = Script(InputSet')

SetRefStandardAccuracy(v) ==
    /\ v # ref_standard_accuracy
    /\ ref_standard_accuracy' = v
    /\ UNCHANGED <<certificate_uncertainty, duc_resolution, temp_difference,
                   age_factor, years_in_service, error_readings, ac_type,
                   voltage, current, power_factor, time_hours, power_factor_entry>>
    /\ Rerun

SetCertificateUncertainty(v) ==
    /\ v # certificate_uncertainty
    /\ certificate_uncertainty' = v
    /\ UNCHANGED <<ref_standard_accuracy, duc_resolution, temp_difference,
                   age_factor, years_in_service, error_readings, ac_type,
                   voltage, current, power_factor, time_hours, power_factor_entry>>
    /\ Rerun

SetDucResolution(v) ==
    /\ v # duc_resolution
    /\ duc_resolution' = v
    /\ UNCHANGED <<ref_standard_accuracy, certificate_uncertainty, temp_difference,
                   age_factor, years_in_service, error_readings, ac_type,
                   voltage, current, power_factor, time_hours, power_factor_entry>>
    /\ Rerun

SetTempDifference(v) ==
    /\ v # temp_difference
    /\ temp_difference' = v
    /\ UNCHANGED <<ref_standard_accuracy, certificate_uncertainty, duc_resolution,
                   age_factor, years_in_service, error_readings, ac_type,
                   voltage, current, power_factor, time_hours, power_factor_entry>>
    /\ Rerun

SetAgeFactor(v) ==
    /\ v # age_factor
    /\ age_factor' = v
    /\ UNCHANGED <<ref_standard_accuracy, certificate_uncertainty, duc_resolution,
                   temp_difference, years_in_service, error_readings, ac_type,
                   voltage, current, power_factor, time_hours, power_factor_entry>>
    /\ Rerun

SetYearsInService(v) ==
    /\ v # years_in_service
    /\ years_in_service' = v
    /\ UNCHANGED <<ref_standard_accuracy, certificate_uncertainty, duc_resolution,
                   temp_difference, age_factor, error_readings, ac_type,
                   voltage, current, power_factor, time_hours, power_factor_entry>>
    /\ Rerun

\* st.data_editor, num_rows="fixed", "Reading #" disabled: one cell of the
\* "Error Value" column is set (or cleared)
EditErrorValue(i, v) ==
    /\ v # error_readings[i]
    /\ error_readings' = [error_readings EXCEPT ![i] = v]
    /\ UNCHANGED <<ref_standard_accuracy, certificate_uncertainty, duc_resolution,
                   temp_difference, age_factor, years_in_service, ac_type,
                   voltage, current, power_factor, time_hours, power_factor_entry>>
    /\ Rerun

SetAcType(v) ==
    /\ v # ac_type
    /\ ac_type' = v
    /\ UNCHANGED <<ref_standard_accuracy, certificate_uncertainty, duc_resolution,
                   temp_difference, age_factor, years_in_service, error_readings,
                   voltage, current, power_factor, time_hours, power_factor_entry>>
    /\ Rerun

SetVoltage(v) ==
    /\ voltage' \in CommitMin(0, voltage, v)
    /\ voltage' # voltage
    /\ UNCHANGED <<ref_standard_accuracy, certificate_uncertainty, duc_resolution,
                   temp_difference, age_factor, years_in_service, error_readings,
                   ac_type, current, power_factor, time_hours, power_factor_entry>>
    /\ Rerun

SetCurrent(v) ==
    /\ current' \in CommitMin(0, current, v)
    /\ current' # current
    /\ UNCHANGED <<ref_standard_accuracy, certificate_uncertainty, duc_resolution,
                   temp_difference, age_factor, years_in_service, error_readings,
                   ac_type, voltage, power_factor, time_hours, power_factor_entry>>
    /\ Rerun

SetPowerFactor(v) ==
    /\ v # power_factor_entry
    /\ power_factor_entry' = v
    /\ power_factor' \in CommitRange(-Milli, Milli, power_factor, v)
    /\ UNCHANGED <<ref_standard_accuracy, certificate_uncertainty, duc_resolution,
                   temp_difference, age_factor, years_in_service, error_readings,
                   ac_type, voltage, current, time_hours>>
    /\ Rerun

SetTimeHours(v) ==
    /\ time_hours' \in CommitMin(0, time_hours, v)
    /\ time_hours' # time_hours
    /\ UNCHANGED <<ref_standard_accuracy, certificate_uncertainty, duc_resolution,
                   temp_difference, age_factor, years_in_service, error_readings,
                   ac_type, voltage, current, power_factor, power_factor_entry>>
    /\ Rerun

\* a download whose report writes the rounded result it prints back into
\* the results
DownloadRounding ==
    /\ UNCHANGED <<inputs, power_factor_entry>>
    /\ out' = [Script(InputSet') EXCEPT
                  !.budget.final_expanded_uncertainty = RoundDiv(@, Milli) * Milli]

\* a click on a download button re-executes the script with the same widget state
Download ==
    /\ UNCHANGED <<inputs, power_factor_entry>>
    /\ out' = Script(InputSet')

Next ==
    \/ \E v \in RefValues : SetRefStandardAccuracy(v)
    \/ \E v \in CertValues : SetCertificateUncertainty(v)
    \/ \E v \in ResValues : SetDucResolution(v)
    \/ \E v \in TempValues : SetTempDifference(v)
    \/ \E v \in AgeValues : SetAgeFactor(v)
    \/ \E v \in YearsValues : SetYearsInService(v)
    \/ \E i \in 1..NumReadings, v \in ReadingValues : EditErrorValue(i, v)
    \/ \E v \in AcTypes : SetAcType(v)
    \/ \E v \in VoltageValues : SetVoltage(v)
    \/ \E v \in CurrentValues : SetCurrent(v)
    \/ \E v \in PowerFactorValues : SetPowerFactor(v)
    \/ \E v \in TimeValues : SetTimeHours(v)
    \/ Download

Spec == Init /\ [][Next]_vars

---------------------------------------------------------------------------
(* The script as a function of the widget state: the session at any of a   *)
(* bounded set of widget states (each one the operator can bring about by  *)
(* edits), after the run that state triggered.                             *)

ReadingTables ==
    LET zeros == Defaults.error_readings
        r1 == Unit \div 100
        r2 == (2 * Unit) \div 100
    IN  { zeros,
          [i \in 1..NumReadings |-> r2],
          [i \in 1..NumReadings |-> IF i <= 5 THEN 0 ELSE r2],
          <<r1, r2, 0, r1, r2, r2, 0, r1, r1, r2>>,
          [zeros EXCEPT ![3] = NaN],
          [i \in 1..NumReadings |-> IF i = 1 THEN r1 ELSE NaN] }

InitInputs ==
    /\ ref_standard_accuracy \in RefValues
    /\ certificate_uncertainty \in CertValues
    /\ duc_resolution \in ResValues
    /\ temp_difference \in TempValues
    /\ age_factor \in AgeValues
    /\ years_in_service = Defaults.years_in_service
    /\ error_readings \in ReadingTables
    /\ ac_type \in AcTypes
    /\ voltage \in {230 * Milli, 100 * Milli}
    /\ current = Defaults.current
    /\ power_factor \in {850, 0, -600, Milli, -Milli}
    /\ time_hours \in {1 * Milli, 2 * Milli}
    /\ power_factor_entry = power_factor
    /\ out = Script(InputSet)

NextInputs == Download

SpecInputs == InitInputs /\ [][NextInputs]_vars

---------------------------------------------------------------------------
(* Properties *)

\* the run completed: the page shows a result bundle
HasBundle == out.error = "none"

U(i) ==
    CASE i = 1 -> out.budget.U1 [] i = 2 -> out.budget.U2 [] i = 3 -> out.budget.U3
      [] i = 4 -> out.budget.U4 [] i = 5 -> out.budget.U5 [] i = 6 -> out.budget.U6

\* the sum of the squares of the six components on the page
PageSumOfSquares ==
    U(1) * U(1) + U(2) * U(2) + U(3) * U(3) + U(4) * U(4) + U(5) * U(5) + U(6) * U(6)

\* C1: after every run, a run on a table with a cleared cell included,
\* final_expanded_uncertainty is the larger of expanded_uncertainty and
\* BMC_FLOOR, and so is at least BMC_FLOOR.
C1_FinalIsMaxAndAtLeastFloor ==
    HasBundle =>
        /\ Ge(out.budget.final_expanded_uncertainty, BMC_FLOOR)
        /\ \/ out.budget.final_expanded_uncertainty = BMC_FLOOR
           \/ out.budget.final_expanded_uncertainty = out.budget.expanded_uncertainty

\* C2: bmc_applied is raised exactly when expanded_uncertainty is strictly
\* below BMC_FLOOR (not at the floor), and exactly when the final value
\* differs from the expanded one.  (On a table with a cleared cell the
\* expanded value is not a number: the flag is not raised and the final
\* value is that same value, passed through unchanged.)
C2_BmcAppliedIffStrictlyBelow ==
    HasBundle =>
        /\ out.budget.bmc_applied <=>
               (~IsNaN(out.budget.expanded_uncertainty)
                /\ out.budget.expanded_uncertainty < BMC_FLOOR)
        /\ out.budget.expanded_uncertainty = BMC_FLOOR => ~out.budget.bmc_applied
        /\ out.budget.bmc_applied <=>
               out.budget.final_expanded_uncertainty # out.budget.expanded_uncertainty

\* C2 witness: a run whose expanded uncertainty is exactly the floor
C2_AtFloor ==
    /\ HasBundle
    /\ out.budget.expanded_uncertainty = BMC_FLOOR
    /\ ~out.budget.bmc_applied

\* C3: on numeric readings uc is the non-negative root (to the nearest
\* count) of the sum of the squares of exactly the six components, and
\* expanded_uncertainty is uc times the coverage factor 2; a component that
\* is not a number makes uc not a number, it is not skipped.
C3_RootSumSquareOfSix ==
    HasBundle =>
        IF \E i \in 1..6 : IsNaN(U(i))
        THEN IsNaN(out.budget.uc) /\ IsNaN(out.budget.expanded_uncertainty)
        ELSE /\ out.budget.uc >= 0
             /\ Abs(PageSumOfSquares - out.budget.uc * out.budget.uc) <= out.budget.uc
             /\ out.budget.expanded_uncertainty = out.budget.uc + out.budget.uc

\* C3 witness: a run in which all six components are non-zero numbers
C3_AllSixPresent ==
    /\ HasBundle
    /\ \A i \in 1..6 : ~IsNaN(U(i)) /\ U(i) # 0
    /\ out.budget.uc > 0

\* the number in the "Power Factor" box lies outside [-1, 1]
EnteredOutOfRange == power_factor_entry < -Milli \/ power_factor_entry > Milli

\* C4 (as stated): with a power factor outside [-1, 1] entered, the run ends
\* in InvalidPowerFactorError and shows no result bundle.
C4_OutOfRangeRaises ==
    EnteredOutOfRange => out.error = "InvalidPowerFactorError" /\ ~HasBundle

\* C4 (amended): the power factor a run reads is always within [-1, 1],
\* whatever was entered, so no run is stopped by it and every run shows the
\* power, energy and uncertainty results; the bounds of the input are what
\* keeps the entered value from math.sqrt, which would stop the run with a
\* ValueError before any result.
C4_PowerFactorKeptInRange ==
    /\ -Milli <= power_factor /\ power_factor <= Milli
    /\ HasBundle
    /\ DOMAIN out = {"error", "power", "budget", "excel_file", "pdf_file"}
    /\ \A v \in PowerFactorValues :
          (v < -Milli \/ v > Milli) =>
              /\ power_factor # v
              /\ Script([InputSet EXCEPT !.power_factor = v]) = [error |-> "ValueError"]

\* C4 witness: 1.5 was entered, and the page shows a bundle
C4_OutOfRangeEntered == EnteredOutOfRange /\ HasBundle

\* how many cells of the readings table hold a number
Supplied == Cardinality({i \in 1..Len(error_readings) : ~IsNaN(error_readings[i])})

\* C5: with fewer than two readings supplied the run ends in
\* InsufficientDataError instead of yielding U1, uc and an expanded uncertainty.
C5_FewReadingsRaise ==
    Supplied < 2 => out.error = "InsufficientDataError" /\ ~HasBundle

\* the widget state is one the specification calls valid
ValidInput ==
    /\ Len(error_readings) = NumReadings
    /\ \A i \in 1..NumReadings : ~IsNaN(error_readings[i])
    /\ -Milli <= power_factor /\ power_factor <= Milli

\* every value of the uncertainty results is a number
CompleteBundle ==
    /\ HasBundle
    /\ \A i \in 1..6 : ~IsNaN(U(i))
    /\ ~IsNaN(out.budget.average_error)
    /\ ~IsNaN(out.budget.uc)
    /\ ~IsNaN(out.budget.expanded_uncertainty)
    /\ ~IsNaN(out.budget.final_expanded_uncertainty)

\* the run built the two reports
HasReports == "excel_file" \in DOMAIN out /\ "pdf_file" \in DOMAIN out

\* C6: on invalid input (a missing reading, ...) no partial result is
\* produced and no report is built: the reports exist only in states with
\* valid input and a complete result bundle.
C6_ReportsOnlyForValidBundle ==
    HasReports => ValidInput /\ CompleteBundle

\* the lines of "Component Contributions" on the page
PageContributions == out.budget.contributions

\* total_variance: the sum of the six variances on the page
PageTotalVariance ==
    Add(Add(Add(Add(Add(PageContributions[1].variance, PageContributions[2].variance),
        PageContributions[3].variance), PageContributions[4].variance),
        PageContributions[5].variance), PageContributions[6].variance)

\* C7: each contribution line carries the variance U_i**2.  When the total
\* variance is above zero every line carries a percentage between 0 and 100,
\* zero for a zero variance, ordered as the variances are, and the six
\* percentages sum to 100 (within 0.05, the rounding of six
\* percentages shown to hundredths).  When the total variance is zero
\* no line carries a percentage (no division) and every line reports 0.
C7_ContributionsSumTo100 ==
    HasBundle =>
        /\ \A i \in 1..6 : PageContributions[i].variance = Sq(U(i))
        /\ Gt(PageTotalVariance, 0) =>
              /\ \A i \in 1..6 :
                    /\ DOMAIN PageContributions[i] = {"variance", "percentage"}
                    /\ PageContributions[i].percentage >= 0
                    /\ PageContributions[i].percentage <= 10000
                    /\ PageContributions[i].variance = 0
                          => PageContributions[i].percentage = 0
                    /\ PageContributions[i].variance = PageTotalVariance
                          => PageContributions[i].percentage = 10000
                    /\ \A j \in 1..6 :
                          PageContributions[i].variance <= PageContributions[j].variance
                             => PageContributions[i].percentage
                                   <= PageContributions[j].percentage
              /\ Abs(PageContributions[1].percentage + PageContributions[2].percentage
                     + PageContributions[3].percentage + PageContributions[4].percentage
                     + PageContributions[5].percentage + PageContributions[6].percentage
                     - 10000) <= 5
        /\ PageTotalVariance = 0 =>
              \A i \in 1..6 :
                 /\ DOMAIN PageContributions[i] = {"variance"}
                 /\ PageContributions[i].variance = 0

\* C7 witness: all six components are zero
C7_ZeroTotalVariance ==
    HasBundle /\ PageTotalVariance = 0 /\ \A i \in 1..6 : U(i) = 0

\* the six components of the current run
PageComponents == <<U(1), U(2), U(3), U(4), U(5), U(6)>>

NoNaN(c) == \A i \in 1..6 : ~IsNaN(c[i])

\* the components of the runs whose InputSet differs from the current one in
\* one input, and so in one component
OtherComponents ==
    LET c == PageComponents
    IN  {[c EXCEPT ![1] = CalcU1([error_readings EXCEPT ![1] = v])] :
             v \in ReadingValues \ {NaN}}
        \cup {[c EXCEPT ![2] = CalcU2(v)] : v \in RefValues}
        \cup {[c EXCEPT ![3] = CalcU3(v)] : v \in CertValues}
        \cup {[c EXCEPT ![4] = CalcU4(v)] : v \in ResValues}
        \cup {[c EXCEPT ![5] = CalcU5(v)] : v \in TempValues}
        \cup {[c EXCEPT ![6] = CalcU6(TotalDrift(v, years_in_service))] : v \in AgeValues}
        \cup {[c EXCEPT ![6] = CalcU6(TotalDrift(age_factor, v))] : v \in YearsValues}

SumOfSquaresOf(c) == SumOfSquares(c[1], c[2], c[3], c[4], c[5], c[6])

UcOf(c) == CombinedUncertainty(c[1], c[2], c[3], c[4], c[5], c[6])

\* C8 (as stated): of two runs whose components agree except for one U_i,
\* the one with the larger U_i has the strictly larger uc, expanded and
\* (unclamped) final uncertainty.  uc is the root of the sum of squares and
\* the other two are multiples of it, so each is strictly larger exactly when
\* the sum of squares is, which is held exactly.
C8_LargerComponentLargerUc ==
    HasBundle /\ NoNaN(PageComponents) =>
        \A c \in OtherComponents :
            (NoNaN(c) /\ \E i \in 1..6 : c[i] > PageComponents[i]) =>
                /\ SumOfSquaresOf(c) > PageSumOfSquares
                /\ UcOf(c) >= out.budget.uc
                /\ ExpandedUncertainty(UcOf(c)) >= out.budget.expanded_uncertainty

\* C8 (amended): of two runs whose components agree except for one U_i, the
\* one whose U_i is larger in absolute value has a uc, an expanded and a
\* final uncertainty that are no smaller (its exact sum of squares is
\* strictly larger); the one whose U_i is larger but smaller in absolute
\* value (a negative component raised towards zero) has no larger a uc (its
\* exact sum of squares is strictly smaller).
C8_LargerMagnitudeLargerUc ==
    HasBundle /\ NoNaN(PageComponents) =>
        \A c \in OtherComponents :
            NoNaN(c) =>
                /\ (\E i \in 1..6 : Abs(c[i]) > Abs(PageComponents[i])) =>
                      /\ SumOfSquaresOf(c) > PageSumOfSquares
                      /\ UcOf(c) >= out.budget.uc
                      /\ ExpandedUncertainty(UcOf(c)) >= out.budget.expanded_uncertainty
                      /\ FinalExpandedUncertainty(ExpandedUncertainty(UcOf(c)))
                            >= out.budget.final_expanded_uncertainty
                /\ (\E i \in 1..6 : /\ c[i] > PageComponents[i]
                                    /\ Abs(c[i]) < Abs(PageComponents[i])) =>
                      /\ SumOfSquaresOf(c) < PageSumOfSquares
                      /\ UcOf(c) <= out.budget.uc

\* C8 witness: the run has a negative component, and a run that differs in
\* that component alone has it at zero
C8_NegativeComponentRaised ==
    /\ HasBundle /\ NoNaN(PageComponents)
    /\ ref_standard_accuracy < 0 /\ U(2) < 0
    /\ \E c \in OtherComponents : c[2] = 0 /\ UcOf(c) < out.budget.uc

\* C9: whatever the session did before, the page shows what the script
\* computes from the current widget state alone: two runs with equal
\* InputSets show equal results, and nothing of an earlier run is read.
C9_ResultIsFunctionOfInputSet == out = Script(InputSet)

\* C9 witness: a run after runs on other inputs, back on the default value of
\* an input that was changed before (the rejected entry shows the history)
C9_RunAfterOtherRuns ==
    /\ HasBundle
    /\ Changed(InputSet) = MaxChanged
    /\ power_factor = Defaults.power_factor
    /\ power_factor_entry # power_factor

\* the volt-amperes of the run, for whole volts and amperes
VoltAmperes == (voltage \div Milli) * (current \div Milli)

\* C10: the powers follow the selected phase mode (V*I*PF and V*I*sinPhi,
\* times sqrt(3) in three-phase), the kilo values are the thousandth of them,
\* the energies are the kilo values times the hours, and both formula labels
\* are those of the selected mode.
C10_PowerFollowsPhaseMode ==
    HasBundle =>
        LET p == out.power
        IN  /\ ac_type = SinglePhase =>
                  /\ p.real_power_w = VoltAmperes * power_factor
                  /\ p.reactive_power_var = VoltAmperes * p.sin_phi
                  /\ p.power_formula = "P(W) = V x I x PF"
                  /\ p.reactive_formula = "Q(VAr) = V x I x sin(phi)"
            /\ ac_type = ThreePhase =>
                  /\ Abs(p.real_power_w * Milli - Sqrt3 * VoltAmperes * power_factor)
                        <= Milli
                  /\ Abs(p.reactive_power_var * Milli - Sqrt3 * VoltAmperes * p.sin_phi)
                        <= Milli
                  /\ p.power_formula = "P(W) = sqrt3 x V_LL x I x PF"
                  /\ p.reactive_formula = "Q(VAr) = sqrt3 x V_LL x I x sin(phi)"
            /\ 2 * Abs(p.real_power_kw * 1000 - p.real_power_w) <= 1000
            /\ 2 * Abs(p.reactive_power_kvar * 1000 - p.reactive_power_var) <= 1000
            /\ 2 * Abs(p.real_energy_kwh * Milli - p.real_power_kw * time_hours) <= Milli
            /\ 2 * Abs(p.reactive_energy_kvarh * Milli - p.reactive_power_kvar * time_hours)
                  <= Milli

\* C10 witness: a three-phase run with real and reactive power over two hours
C10_ThreePhaseRun ==
    /\ HasBundle /\ ac_type = ThreePhase
    /\ out.power.real_power_w # 0 /\ out.power.reactive_power_var # 0
    /\ time_hours = 2 * Milli
    /\ out.power.real_energy_kwh # out.power.real_power_kw

\* sign(x) with sign(0) = 0
Sign(x) == IF x > 0 THEN 1 ELSE IF x < 0 THEN -1 ELSE 0

\* C11 (as stated): sin_phi is sign(power_factor) * sqrt(1 - power_factor^2)
\* with sign(0) = 0: at power factor 0, sin_phi and the reactive power are 0.
C11_SinPhiZeroAtZero ==
    HasBundle =>
        /\ Sign(out.power.sin_phi) = Sign(power_factor) * Sign(Milli - Abs(power_factor))
        /\ power_factor = 0 =>
              out.power.sin_phi = 0 /\ out.power.reactive_power_var = 0

\* C11 (amended): sin_phi is sqrt(1 - power_factor^2) with the sign bit of
\* the power factor (math.copysign): positive for PF in (0, 1), negative for
\* PF in (-1, 0), 0 at PF = 1 and PF = -1, and of magnitude 1 at PF = 0, where
\* the reactive power is the whole of V * I (times sqrt(3) in three-phase).
C11_SinPhiCopiesSign ==
    HasBundle =>
        /\ (0 < power_factor /\ power_factor < Milli) => out.power.sin_phi > 0
        /\ (-Milli < power_factor /\ power_factor < 0) => out.power.sin_phi < 0
        /\ Abs(power_factor) = Milli => out.power.sin_phi = 0
        /\ Abs(out.power.sin_phi * out.power.sin_phi + power_factor * power_factor
               - Milli * Milli) <= Milli
        /\ power_factor = 0 =>
              /\ Abs(out.power.sin_phi) = Milli
              /\ Abs(out.power.reactive_power_var)
                    = IF ac_type = SinglePhase THEN VoltAmperes * Milli
                                               ELSE VoltAmperes * Sqrt3

\* C11 witness: a run at power factor 0 with reactive power
C11_ZeroPowerFactor ==
    /\ HasBundle /\ power_factor = 0
    /\ Abs(out.power.sin_phi) = Milli
    /\ out.power.reactive_power_var # 0

\* every cell of the readings table holds a number
NumericReadings == \A i \in 1..Len(error_readings) : ~IsNaN(error_readings[i])

\* the sum of the squared deviations of the readings from the average shown
SquaredDeviations ==
    SumSeq([i \in 1..Len(error_readings) |->
               (error_readings[i] - out.budget.average_error)
                  * (error_readings[i] - out.budget.average_error)])

\* C12: on numeric readings average_error is their arithmetic mean (to the
\* nearest count) and U1 is the non-negative root of the sum of their squared
\* deviations from it divided by n - 1 = 9 (to the nearest count); ten
\* identical readings give U1 = 0 and that reading as the average.  A cell
\* that is not a number makes both not a number.
C12_SampleStandardDeviation ==
    HasBundle =>
        IF NumericReadings
        THEN /\ Len(error_readings) - 1 = 9
             /\ 2 * Abs(out.budget.average_error * Len(error_readings)
                        - SumSeq(error_readings)) <= Len(error_readings)
             /\ out.budget.U1 >= 0
             /\ Abs((Len(error_readings) - 1) * out.budget.U1 * out.budget.U1
                    - SquaredDeviations)
                   <= (Len(error_readings) - 1) * out.budget.U1 + 5
             /\ (\A i \in 1..Len(error_readings) : error_readings[i] = error_readings[1])
                   => /\ out.budget.U1 = 0
                      /\ out.budget.average_error = error_readings[1]
        ELSE IsNaN(out.budget.U1) /\ IsNaN(out.budget.average_error)

\* C12 witness: ten numeric readings that are not all the same
C12_ScatteredReadings ==
    /\ HasBundle /\ NumericReadings
    /\ error_readings[1] # error_readings[2]
    /\ out.budget.U1 > 0
    /\ out.budget.average_error > 0

\* the inputs of the uncertainty path and those of the power path
UncertaintyInputs ==
    <<ref_standard_accuracy, certificate_uncertainty, duc_resolution,
      temp_difference, age_factor, years_in_service, error_readings>>

ElectricalInputs == <<ac_type, voltage, current, power_factor, time_hours>>

\* the inputs each of U1..U6 is computed from, in the order of the components
ComponentInputs ==
    <<error_readings, ref_standard_accuracy, certificate_uncertainty,
      duc_resolution, temp_difference, <<age_factor, years_in_service>>>>

\* C13: from one run to the next, a component U_i changes only if its own
\* inputs changed (the readings for U1 and the average error, the reference
\* accuracy for U2, the certificate uncertainty for U3, the resolution for
\* U4, the temperature difference for U5, the age factor or the years in
\* service for U6); a change of electrical inputs alone leaves the whole
\* uncertainty budget unchanged, and a change of uncertainty inputs alone
\* leaves every power and energy value unchanged.
C13_IndependentPaths ==
    [][(HasBundle /\ HasBundle') =>
          /\ \A i \in 1..6 :
                ComponentInputs'[i] = ComponentInputs[i]
                   => PageComponents'[i] = PageComponents[i]
          /\ error_readings' = error_readings
                => out'.budget.average_error = out.budget.average_error
          /\ UncertaintyInputs' = UncertaintyInputs => out'.budget = out.budget
          /\ ElectricalInputs' = ElectricalInputs => out'.power = out.power]_vars

\* C13 witness: after a change of an electrical input alone the power values
\* are not those of the defaults, and the budget is
C13_ElectricalChangeOnly ==
    /\ HasBundle
    /\ time_hours # Defaults.time_hours /\ ac_type # Defaults.ac_type
    /\ UncertaintyInputs = <<Defaults.ref_standard_accuracy,
                             Defaults.certificate_uncertainty, Defaults.duc_resolution,
                             Defaults.temp_difference, Defaults.age_factor,
                             Defaults.years_in_service, Defaults.error_readings>>
    /\ out.power # PowerAndEnergy(Defaults)
    /\ out.budget = UncertaintyBudget(Defaults)

ReadingsListedInOrder ==
    /\ Len(error_readings) = NumReadings
    /\ HasReports =>
          /\ DOMAIN out.excel_file.readings = 1..NumReadings
          /\ DOMAIN out.pdf_file.readings = 1..NumReadings
          /\ \A i \in 1..NumReadings :
                /\ out.excel_file.readings[i] = [label |-> i, value |-> error_readings[i]]
                /\ out.pdf_file.readings[i] = [label |-> i, value |-> error_readings[i]]

\* C15: through every edit and every rerun the readings are a sequence of
\* exactly ten values, a step changes at most one of them and leaves the
\* others where they were, and both reports list the i-th reading under the
\* label of position i, in the order of the table.
C15_TenReadingsInOrder ==
    [][/\ ReadingsListedInOrder
       /\ ReadingsListedInOrder'
       /\ Cardinality({i \in 1..NumReadings : error_readings'[i] # error_readings[i]}) <= 1
      ]_vars

\* C15 witness: an edited table whose first two readings differ, listed by
\* both reports
C15_EditedTableListed ==
    /\ HasReports
    /\ error_readings[2] # Defaults.error_readings[2]
    /\ error_readings[1] # error_readings[2]
    /\ out.excel_file.readings[2].value = error_readings[2]
    /\ out.pdf_file.readings[1].value = error_readings[1]

\* the components U2..U6 of the runs that differ from the current one in the
\* sign of one type-B input (for U6, of the age factor or of the drift)
SignFlips ==
    { <<2, CalcU2(-ref_standard_accuracy)>>,
      <<3, CalcU3(-certificate_uncertainty)>>,
      <<4, CalcU4(-duc_resolution)>>,
      <<5, CalcU5(-temp_difference)>>,
      <<6, CalcU6(TotalDrift(-age_factor, years_in_service))>>,
      <<6, CalcU6(-TotalDrift(age_factor, years_in_service))>> }

\* C16: a negative type-B input is taken as it is (the run completes), and
\* the run that differs in the sign of one of them has the corresponding
\* component negated and the same uc, expanded and final uncertainty and
\* floor flag; on numeric components uc is never negative and is at least
\* the absolute value of each component.
C16_SignInsensitive ==
    HasBundle =>
        /\ \A f \in SignFlips :
              LET c == [PageComponents EXCEPT ![f[1]] = f[2]]
                  e == ExpandedUncertainty(UcOf(c))
              IN  /\ f[2] = -PageComponents[f[1]]
                  /\ UcOf(c) = out.budget.uc
                  /\ e = out.budget.expanded_uncertainty
                  /\ FinalExpandedUncertainty(e) = out.budget.final_expanded_uncertainty
                  /\ BmcApplied(e) = out.budget.bmc_applied
        /\ IF NoNaN(PageComponents)
           THEN /\ out.budget.uc >= 0
                /\ \A i \in 1..6 : out.budget.uc >= Abs(U(i))
           ELSE IsNaN(out.budget.uc)

\* C16 witness: a run on a negative reference accuracy, its U2 negative and
\* its uc that of the run on the positive one
C16_NegativeAccuracyAccepted ==
    /\ HasBundle /\ NoNaN(PageComponents)
    /\ ref_standard_accuracy < 0 /\ out.budget.U2 < 0
    /\ out.budget.uc >= -out.budget.U2
    /\ UcOf([PageComponents EXCEPT ![2] = CalcU2(-ref_standard_accuracy)]) = out.budget.uc
    /\ out.budget.uc > 0

====
